---- MODULE Spec2Model ----
(***************************************************************************)
(* projectpal as state machines: the client-side upload manager            *)
(* FileUploader (src/lib/utils/file-uploader.ts), the request middleware   *)
(* (src/middleware.ts) and the server actions on projects                  *)
(* (src/app/actions).                                                      *)
(*                                                                         *)
(* JavaScript runs one job at a time, so one action of the uploader is one *)
(* job of the event loop together with the chain of promise reactions it   *)
(* triggers: a call of the public API (addToQueue, setPriority, pause,     *)
(* resume, cancel), the answer of the storage service to one upload        *)
(* request, or the expiry of one backoff timer.  The storage service and   *)
(* the timers are the environment.  One action of the server side is one   *)
(* call of the middleware or of a server action, with the backend call     *)
(* that fails during it, if any, chosen by the environment.                *)
(***************************************************************************)
EXTENDS Integers, Sequences, FiniteSets, TLC

\* ---------------------------------------------------------------- bounds
NumFiles == 2        \* files the user may hand to addToQueue
MaxTasks == 3        \* uploadWithRetry calls alive at the same time
MaxRuns == 2         \* processQueue chains awaiting a batch at the same time
MaxFails == 2        \* transient storage failures the environment injects
MaxRetriesOpt == 2   \* options.maxRetries passed by the caller
BatchSizeOpt == 2    \* largest options.batchSize passed by the caller
RetryMaxRetries == 7 \* largest options.maxRetries of RetrySpec
FairFiles == 2       \* files the user may hand to addToQueue under FairSpec
FairFails == 1       \* transient storage failures under FairSpec
SteadyFiles == 3     \* files the user may hand to addToQueue under SteadySpec
StopFiles == 1       \* files the user may hand to addToQueue under StopSpec
StopFails == 1       \* transient storage failures under StopSpec

\* ------------------------------------------------------ program constants
DefaultInitialRetryDelay == 1000
DefaultMaxRetryDelay == 30000
DefaultBatchSize == 3

Max(a, b) == IF a > b THEN a ELSE b
Files == 1..Max(NumFiles, Max(FairFiles, SteadyFiles))
TaskIds == 1..MaxTasks
RunIds == 1..MaxRuns
Priorities == {"high", "medium", "low"}
Null == 0

\* file.size: the model gives file f the size f
Size(f) == f

VARIABLES
    options,        \* this.options (maxRetries, initialRetryDelay, maxRetryDelay, batchSize)
    files,          \* the files the user selects (input of the run)
    prios,          \* the priorities the user gives them (input of the run)
    queue,          \* this.queue: sequence of QueueItem
    uploading,      \* this.uploading
    paused,         \* this.paused
    cancelled,      \* this.cancelled
    currentUpload,  \* this.currentUpload: the task whose AbortController it holds, or Null
    uploadedSize,   \* this.uploadState.uploadedSize
    totalSize,      \* this.uploadState.totalSize
    added,          \* files of this.uploadState.queue: everything passed to addToQueue
    saved,          \* localStorage 'uploadState': whether present, and the saved sizes
    tasks,          \* the uploadWithRetry calls that have not settled
    runs,           \* the processQueue chains awaiting Promise.all of a batch
    stored,         \* paths the storage service holds
    now,            \* Date.now()
    failBudget,     \* transient failures the storage service may still produce
    resolved,       \* files whose addToQueue promise has resolved
    startedNow,     \* files for which the last step issued a storage request
    lastTake,       \* the batch the last step spliced off the queue (<<>> if none)
    gaveUp,         \* per file: attempts made by an uploadWithRetry call that rejected with the storage error (0: none)
    pendingAtPause, \* files added and not stored at the last pause()
    errors          \* this.errors: per file, the sequence of UploadError

uploaderVars ==
    <<options, files, prios, queue, uploading, paused, cancelled, currentUpload,
      uploadedSize, totalSize, added, saved, tasks, runs, stored, now,
      failBudget, resolved, startedNow, lastTake, gaveUp, pendingAtPause,
      errors>>

\* The server side of the application (src/middleware.ts and the server
\* actions of src/app/actions) shares no state with the uploader of a browser
\* tab: the specifications of the uploader leave it idle, and the
\* specifications of the server side leave the uploader idle.
VARIABLES
    mwRequest,      \* middleware: the request (path, session user, profile row)
    mwResponse,     \* middleware: what it returned for the request
    projects,       \* table projects: per id, created_by, status and the content validation reads
    moderation,     \* table content_moderation: per project, the status of its latest row
    history,        \* table project_status_history: the rows, oldest first
    approvals,      \* table status_change_approvals: the rows, oldest first
    conflicts,      \* table draft_conflicts: the rows
    call,           \* the last server action: its name, caller, arguments and outcome
    newProject,     \* the rows createProject has inserted for the project it creates
    scanResults     \* table content_scan_results: the latest row of the content, if any

dbVars == <<projects, moderation, history, approvals, conflicts, newProject,
           scanResults>>

serverVars == <<mwRequest, mwResponse, dbVars, call>>

\* no server action has been called
NoCall ==
    [op |-> "none", caller |-> Null, project |-> Null, outcome |-> "none",
     down |-> "none", required |-> [given |-> FALSE, statuses |-> {}],
     lessons |-> 0, files |-> 0, status |-> "", confidence_score |-> 0,
     autoModeration |-> "none", enabled |-> FALSE, scored |-> 0, stored |-> FALSE,
     error |-> "", success |-> FALSE, granted |-> FALSE, errors |-> {},
     content |-> Null]

\* createProject has inserted nothing
NoRows == [project |-> FALSE, status |-> "", steps |-> {}, resources |-> {}]

\* scanContent has stored no result
NoScanRow ==
    [present |-> FALSE, status |-> "", confidence_score |-> 0,
     scan_metadata |-> <<>>]

\* no request has reached the server side and its tables are empty
ServerIdle ==
    /\ mwRequest = [present |-> FALSE]
    /\ mwResponse = [kind |-> "none"]
    /\ projects = <<>>
    /\ moderation = <<>>
    /\ history = <<>>
    /\ approvals = <<>>
    /\ conflicts = <<>>
    /\ call = NoCall
    /\ newProject = NoRows
    /\ scanResults = NoScanRow

vars == <<uploaderVars, serverVars>>

\* ------------------------------------------------------------ pure helpers
Min(a, b) == IF a < b THEN a ELSE b

RECURSIVE Pow2(_)
Pow2(n) == IF n <= 0 THEN 1 ELSE 2 * Pow2(n - 1)

\* options.priorityWeights
priorityWeights(p) == CASE p = "high" -> 3 [] p = "medium" -> 2 [] OTHER -> 1

\* the comparator of sortQueue: negative when a goes before b
Compare(a, b) ==
    LET priorityDiff == priorityWeights(b.priority) - priorityWeights(a.priority)
    IN  IF priorityDiff # 0 THEN priorityDiff ELSE a.addedAt - b.addedAt

\* x put into the sorted sequence s behind everything that does not go after it
InsertSorted(s, x) ==
    LET later == {i \in 1..Len(s) : Compare(s[i], x) > 0}
        pos == IF later = {} THEN Len(s) + 1
               ELSE CHOOSE i \in later : \A j \in later : i <= j
    IN  SubSeq(s, 1, pos - 1) \o <<x>> \o SubSeq(s, pos, Len(s))

\* Array.prototype.sort with the comparator above (a stable sort)
RECURSIVE sortQueue(_)
sortQueue(q) ==
    IF Len(q) <= 1 THEN q
    ELSE InsertSorted(sortQueue(SubSeq(q, 1, Len(q) - 1)), q[Len(q)])

\* mutant: the delay is not capped
calculateRetryDelayUncapped(opt, attempt) ==
    opt.initialRetryDelay * Pow2(attempt - 1)

calculateRetryDelay(opt, attempt) ==
    Min(opt.initialRetryDelay * Pow2(attempt - 1), opt.maxRetryDelay)

\* uploadWithRetry retries after a failed attempt
MayRetry(opt, attempt) == attempt < opt.maxRetries

\* mutant: a cancelled uploader still retries
UploadRefusedWhenPausedOnly(p, c) == p

\* mutant: a paused uploader still retries
UploadRefusedWhenCancelledOnly(p, c) == c

\* the first check of uploadWithRetry
UploadRefused(p, c) == p \/ c

\* the first check of processQueue
QueueStops(q, p, c) == Len(q) = 0 \/ p \/ c

QueueFiles(q) == {q[i].file : i \in 1..Len(q)}

FreeTask == [file |-> 0, attempt |-> 0, phase |-> "free", aborted |-> FALSE,
             run |-> 0, delays |-> <<>>]
IdleRun == [active |-> FALSE, batch |-> <<>>, origin |-> 0]

FreeIds(T) == {t \in TaskIds : T[t].phase = "free"}
NthFree(T, i) ==
    CHOOSE t \in FreeIds(T) : Cardinality({u \in FreeIds(T) : u < t}) = i - 1
FreeRuns(R) == {r \in RunIds : ~R[r].active}
LowestFreeRun(R) ==
    IF FreeRuns(R) = {} THEN 0
    ELSE CHOOSE r \in FreeRuns(R) : \A u \in FreeRuns(R) : r <= u


\* ------------------------------------------------- the state inside a step
\* The program state a step starts from; startedNow and lastTake describe
\* one step and start empty.
Cur ==
    [queue |-> queue, uploading |-> uploading, paused |-> paused,
     cancelled |-> cancelled, currentUpload |-> currentUpload,
     uploadedSize |-> uploadedSize, totalSize |-> totalSize, saved |-> saved,
     tasks |-> tasks, runs |-> runs, stored |-> stored, resolved |-> resolved,
     startedNow |-> {}, lastTake |-> <<>>, gaveUp |-> gaveUp, errors |-> errors,
     ok |-> TRUE]

\* s.ok is FALSE when the step would need more tasks or runs than the bounds give
Commit(s) ==
    /\ s.ok
    /\ queue' = s.queue
    /\ uploading' = s.uploading
    /\ paused' = s.paused
    /\ cancelled' = s.cancelled
    /\ currentUpload' = s.currentUpload
    /\ uploadedSize' = s.uploadedSize
    /\ totalSize' = s.totalSize
    /\ saved' = s.saved
    /\ tasks' = s.tasks
    /\ runs' = s.runs
    /\ stored' = s.stored
    /\ resolved' = s.resolved
    /\ startedNow' = s.startedNow
    /\ lastTake' = s.lastTake
    /\ gaveUp' = s.gaveUp
    /\ errors' = s.errors

\* getErrors(fileId): this.errors[fileId] || []
\* (logError, the only writer of this.errors, has no caller in the class)
getErrors(f) == errors[f]

\* localStorage without the item 'uploadState'
NoSaved == [present |-> FALSE, uploadedSize |-> 0, totalSize |-> 0]

\* saveState: localStorage.setItem('uploadState', ...)
saveState(s) ==
    [s EXCEPT !.saved = [present |-> TRUE, uploadedSize |-> s.uploadedSize,
                         totalSize |-> s.totalSize]]

\* loadState: the sizes come back from localStorage; FALSE when nothing is saved
loadState(s) ==
    IF ~s.saved.present THEN s
    ELSE [s EXCEPT !.uploadedSize = s.saved.uploadedSize,
                   !.totalSize = s.saved.totalSize]

\* currentUpload.abort(): the request of that controller, if still in flight, fails
Abort(s) ==
    IF s.currentUpload # Null /\ s.tasks[s.currentUpload].phase = "inflight"
    THEN [s EXCEPT !.tasks[s.currentUpload].aborted = TRUE]
    ELSE s

\* A processQueue chain returns: the promise awaited by addToQueue(origin) resolves.
Return(s, r, origin) ==
    [s EXCEPT !.runs = IF r = 0 THEN @ ELSE [@ EXCEPT ![r] = IdleRun],
              !.resolved = IF origin = 0 THEN @ ELSE @ \cup {origin}]

\* batch.map(... uploadWithRetry(file, path)): one task per item, each sets
\* currentUpload to its own controller and issues its request
StartBatch(T, batch, r) ==
    [t \in TaskIds |->
        IF \E i \in 1..Len(batch) : NthFree(T, i) = t
        THEN LET i == CHOOSE j \in 1..Len(batch) : NthFree(T, j) = t
             IN  [file |-> batch[i].file, attempt |-> 1, phase |-> "inflight",
                  aborted |-> FALSE, run |-> r, delays |-> <<>>]
        ELSE T[t]]

\* processQueue, up to its await of Promise.all. r is the chain's run (0: a new chain).
processQueue(s, r, origin) ==
    IF QueueStops(s.queue, s.paused, s.cancelled)
    THEN Return([s EXCEPT !.uploading = FALSE], r, origin)
    ELSE LET n == Min(Len(s.queue), options.batchSize)
             batch == SubSeq(s.queue, 1, n)
             rr == IF r # 0 THEN r ELSE LowestFreeRun(s.runs)
         IN  IF rr = 0 \/ Cardinality(FreeIds(s.tasks)) < n
             THEN [s EXCEPT !.ok = FALSE]
             ELSE [s EXCEPT !.uploading = TRUE,
                            !.queue = SubSeq(s.queue, n + 1, Len(s.queue)),
                            !.lastTake = batch,
                            !.runs[rr] = [active |-> TRUE, batch |-> batch, origin |-> origin],
                            !.tasks = StartBatch(s.tasks, batch, rr),
                            !.currentUpload = NthFree(s.tasks, n),
                            !.startedNow = @ \cup QueueFiles(batch)]

\* the end of processQueue: it goes round again unless paused or cancelled
Again(s, r) ==
    IF ~s.cancelled /\ ~s.paused
    THEN processQueue(s, r, s.runs[r].origin)
    ELSE Return(s, r, s.runs[r].origin)

\* the catch block of processQueue puts the batch back
PutBack(s, r) ==
    IF ~s.cancelled /\ ~s.paused
    THEN [s EXCEPT !.queue = s.runs[r].batch \o @]
    ELSE s

\* uploadWithRetry of task t fulfils; Promise.all fulfils with the last one
Fulfil(s, t) ==
    LET r == s.tasks[t].run
        s1 == [s EXCEPT !.tasks[t] = FreeTask]
    IN  IF r = 0 \/ (\E u \in TaskIds : u # t /\ s.tasks[u].run = r)
        THEN s1
        ELSE Again(IF Len(s1.queue) = 0 THEN [s1 EXCEPT !.saved = NoSaved] ELSE s1, r)

\* uploadWithRetry of task t rejects; Promise.all rejects with the first one and
\* no longer listens to the others of the batch
Reject(s, t) ==
    LET r == s.tasks[t].run
        s1 == [s EXCEPT !.tasks = [u \in TaskIds |->
                   IF u = t THEN FreeTask
                   ELSE IF r # 0 /\ @[u].run = r THEN [@[u] EXCEPT !.run = 0]
                   ELSE @[u]]]
    IN  IF r = 0 THEN s1 ELSE Again(PutBack(s1, r), r)


\* ------------------------------------------------------------------ Init
SmallOptions(b) ==
    [maxRetries |-> MaxRetriesOpt, initialRetryDelay |-> DefaultInitialRetryDelay,
     maxRetryDelay |-> DefaultMaxRetryDelay, batchSize |-> b]

\* RetrySpec: one file, and the retry options drawn from a set that holds the defaults
RetryOptions ==
    [maxRetries : 1..RetryMaxRetries,
     initialRetryDelay : {1, DefaultInitialRetryDelay},
     maxRetryDelay : {3, DefaultMaxRetryDelay},
     batchSize : {DefaultBatchSize}]

\* the uploader after its constructor
UploaderInit(opt, fs, ps, budget) ==
    /\ options = opt
    /\ files = fs
    /\ prios = ps
    /\ queue = <<>>
    /\ uploading = FALSE
    /\ paused = FALSE
    /\ cancelled = FALSE
    /\ currentUpload = Null
    /\ uploadedSize = 0
    /\ totalSize = 0
    /\ added = {}
    /\ saved = NoSaved
    /\ tasks = [t \in TaskIds |-> FreeTask]
    /\ runs = [r \in RunIds |-> IdleRun]
    /\ stored = {}
    /\ now = 0
    /\ failBudget = budget
    /\ resolved = {}
    /\ startedNow = {}
    /\ lastTake = <<>>
    /\ gaveUp = [f \in Files |-> 0]
    /\ pendingAtPause = {}
    /\ errors = [f \in Files |-> <<>>]

InitWith(opt, fs, ps, budget) == UploaderInit(opt, fs, ps, budget) /\ ServerIdle

\* an uploader that is handed no file
UploaderIdle == UploaderInit(SmallOptions(DefaultBatchSize), {}, {}, 0)

Init == \E b \in 1..BatchSizeOpt : InitWith(SmallOptions(b), 1..NumFiles, Priorities, MaxFails)

RetryInit == \E opt \in RetryOptions : InitWith(opt, {1}, {"medium"}, opt.maxRetries)

FairInit == InitWith(SmallOptions(BatchSizeOpt), 1..FairFiles, {"medium"}, FairFails)

StopInit == InitWith(SmallOptions(BatchSizeOpt), 1..StopFiles, {"medium"}, StopFails)

SteadyInit == InitWith(SmallOptions(BatchSizeOpt), 1..SteadyFiles, {"medium"}, MaxFails)

\* --------------------------------------------------------------- actions
\* addToQueue(file, path, priority); the clock has moved on since the last call
AddToQueue(f, p) ==
    /\ f \in files \ added
    /\ p \in prios
    /\ LET item == [file |-> f, priority |-> p, addedAt |-> now + 1]
           s1 == saveState([Cur EXCEPT !.queue = sortQueue(Append(@, item)),
                                       !.totalSize = @ + Size(f)])
           s2 == IF ~s1.uploading /\ ~s1.paused
                 THEN processQueue(s1, 0, f)
                 ELSE Return(s1, 0, f)
       IN  Commit(s2)
    /\ added' = added \cup {f}
    /\ now' = now + 1
    /\ UNCHANGED <<serverVars, options, files, prios, failBudget, pendingAtPause>>

\* setPriority(fileId, priority): the first queued item of that name
SetPriority(f, p) ==
    /\ f \in QueueFiles(queue)
    /\ p \in prios
    /\ LET i == CHOOSE j \in 1..Len(queue) :
                    queue[j].file = f /\ \A k \in 1..(j - 1) : queue[k].file # f
           s1 == saveState([Cur EXCEPT !.queue = sortQueue([@ EXCEPT ![i].priority = p])])
       IN  Commit(s1)
    /\ UNCHANGED <<serverVars, options, files, prios, added, now, failBudget, pendingAtPause>>

\* pause()
Pause ==
    /\ Commit(Abort([Cur EXCEPT !.paused = TRUE]))
    /\ pendingAtPause' = added \ stored
    /\ UNCHANGED <<serverVars, options, files, prios, added, now, failBudget>>

\* resume()
Resume ==
    /\ LET s1 == [Cur EXCEPT !.paused = FALSE]
       IN  Commit(IF s1.saved.present THEN processQueue(loadState(s1), 0, 0) ELSE s1)
    /\ UNCHANGED <<serverVars, options, files, prios, added, now, failBudget, pendingAtPause>>

\* cancel()
Cancel ==
    /\ Commit([Abort([Cur EXCEPT !.cancelled = TRUE]) EXCEPT !.queue = <<>>])
    /\ UNCHANGED <<serverVars, options, files, prios, added, now, failBudget, pendingAtPause>>

\* The storage service accepts the upload of task t (upsert: false: the path is new).
UploadSucceeds(t) ==
    /\ tasks[t].phase = "inflight"
    /\ ~tasks[t].aborted
    /\ tasks[t].file \notin stored
    /\ LET f == tasks[t].file
           s1 == saveState([Cur EXCEPT !.stored = @ \cup {f},
                                       !.uploadedSize = @ + Size(f)])
       IN  Commit(Fulfil([s1 EXCEPT !.currentUpload = Null], t))
    /\ UNCHANGED <<serverVars, options, files, prios, added, now, failBudget, pendingAtPause>>

\* The upload of task t fails: aborted, the path exists already, or a transient error.
UploadFails(t) ==
    /\ tasks[t].phase = "inflight"
    /\ LET f == tasks[t].file
           transient == ~tasks[t].aborted /\ f \notin stored
       IN  /\ transient => failBudget > 0
           /\ failBudget' = IF transient THEN failBudget - 1 ELSE failBudget
           /\ IF MayRetry(options, tasks[t].attempt)
              THEN Commit([Cur EXCEPT
                      !.tasks[t].phase = "delay",
                      !.tasks[t].aborted = FALSE,
                      !.tasks[t].delays =
                          Append(@, calculateRetryDelay(options, tasks[t].attempt))])
              ELSE Commit(Reject([Cur EXCEPT !.gaveUp[f] = tasks[t].attempt,
                                             !.currentUpload = Null], t))
    /\ UNCHANGED <<serverVars, options, files, prios, added, now, pendingAtPause>>

\* The backoff timer of task t expires: uploadWithRetry(file, path, attempt + 1)
TimerFires(t) ==
    /\ tasks[t].phase = "delay"
    /\ IF UploadRefused(paused, cancelled)
       THEN Commit(Reject([Cur EXCEPT !.currentUpload = Null], t))
       ELSE Commit([Cur EXCEPT !.tasks[t].phase = "inflight",
                               !.tasks[t].attempt = @ + 1,
                               !.startedNow = {tasks[t].file},
                               !.currentUpload = Null])
    /\ UNCHANGED <<serverVars, options, files, prios, added, now, failBudget, pendingAtPause>>

Next ==
    \/ \E f \in Files, p \in Priorities : AddToQueue(f, p)
    \/ \E f \in Files, p \in Priorities : SetPriority(f, p)
    \/ Pause
    \/ Resume
    \/ Cancel
    \/ \E t \in TaskIds : UploadSucceeds(t)
    \/ \E t \in TaskIds : UploadFails(t)
    \/ \E t \in TaskIds : TimerFires(t)

Spec == Init /\ [][Next]_vars

RetrySpec == RetryInit /\ [][Next]_vars

\* One file, to settle what pause() and cancel() stop
StopSpec == StopInit /\ [][Next]_vars

\* The storage service answers every request and every timer expires.
Fairness ==
    \A t \in TaskIds :
        /\ WF_vars(UploadSucceeds(t) \/ UploadFails(t))
        /\ WF_vars(TimerFires(t))

FairSpec == FairInit /\ [][Next]_vars /\ Fairness

\* The uploader is never paused, resumed or cancelled.
SteadyNext ==
    \/ \E f \in Files, p \in Priorities : AddToQueue(f, p)
    \/ \E f \in Files, p \in Priorities : SetPriority(f, p)
    \/ \E t \in TaskIds : UploadSucceeds(t)
    \/ \E t \in TaskIds : UploadFails(t)
    \/ \E t \in TaskIds : TimerFires(t)

SteadySpec == SteadyInit /\ [][SteadyNext]_vars /\ Fairness


\* ---------------------------------------------------------------- claims
HasTask(f) == \E t \in TaskIds : tasks[t].phase # "free" /\ tasks[t].file = f

\* C1: every file that was added and not yet stored when pause() was called is
\* eventually stored once the uploader has been resumed, as long as it is not
\* paused again or cancelled and the storage service produces no failure of
\* its own.
C1PauseResumeLosesNoFile ==
    \A f \in Files :
        [](f \in pendingAtPause /\ ~paused
            => <>(f \in stored \/ paused \/ cancelled \/ failBudget # FairFails))

\* C2: an uploadWithRetry call that rejects with the storage error has made the
\* initial attempt and options.maxRetries retries.
C2RetryCount ==
    \A f \in Files : gaveUp[f] # 0 => gaveUp[f] = 1 + options.maxRetries

\* C3: the k-th backoff delay of an upload is
\* min(initialRetryDelay * 2^(k-1), maxRetryDelay); one delay follows each failed
\* attempt; the delays never decrease, double until the cap and never exceed it.
C3BackoffDelay ==
    \A t \in TaskIds :
        LET d == tasks[t].delays
        IN  /\ tasks[t].phase = "delay" => Len(d) = tasks[t].attempt
            /\ tasks[t].phase = "inflight" => Len(d) = tasks[t].attempt - 1
            /\ \A k \in 1..Len(d) :
                /\ d[k] = Min(options.initialRetryDelay * Pow2(k - 1), options.maxRetryDelay)
                /\ d[k] <= options.maxRetryDelay
                /\ k > 1 => /\ d[k] >= d[k - 1]
                            /\ d[k] = 2 * d[k - 1] \/ d[k] = options.maxRetryDelay

\* C3 witness: with the default delays, the sixth delay of an upload is the cap.
C3Witness ==
    \E t \in TaskIds :
        /\ options.initialRetryDelay = DefaultInitialRetryDelay
        /\ options.maxRetryDelay = DefaultMaxRetryDelay
        /\ Len(tasks[t].delays) = 6
        /\ tasks[t].delays[5] = 16 * DefaultInitialRetryDelay
        /\ tasks[t].delays[6] = DefaultMaxRetryDelay

\* C4: once uploadWithRetry has given up on a file, the file is not put back
\* into the queue and no further storage request is issued for it.
C4GiveUpIsFinal ==
    \A f \in Files :
        gaveUp[f] # 0 => f \notin QueueFiles(queue) /\ f \notin startedNow

\* C5: when a batch is taken, every item of the batch goes before every item
\* left in the queue: higher priority weight, or the same weight and added
\* no later.
C5PriorityOrder ==
    \A i \in 1..Len(lastTake), j \in 1..Len(queue) :
        \/ priorityWeights(lastTake[i].priority) > priorityWeights(queue[j].priority)
        \/ /\ priorityWeights(lastTake[i].priority) = priorityWeights(queue[j].priority)
           /\ lastTake[i].addedAt <= queue[j].addedAt

\* C6: never paused or cancelled, with finitely many transient failures: every
\* added file is eventually stored and processing ends with an empty queue and
\* uploading = false.
C6EventualUpload ==
    /\ \A f \in Files : [](f \in added => <>(f \in stored))
    /\ <>[](Len(queue) = 0 /\ ~uploading)

\* C7: when the promise of addToQueue(file) has resolved, the file is stored.
C7ResolvedMeansStored == resolved \subseteq stored

\* C8: after cancel() no step issues a storage request.
C8CancelIsFinal == cancelled => startedNow = {}

\* a retry of f was refused when its backoff timer expired: the chain of
\* addToQueue(f) has ended, f is neither stored nor queued nor being uploaded,
\* and no uploadWithRetry call gave up on it
RetryRefused(f) ==
    /\ f \in resolved
    /\ f \notin stored
    /\ f \notin QueueFiles(queue)
    /\ ~HasTask(f)
    /\ gaveUp[f] = 0

\* C8 witness: cancelled and never paused, and a retry was refused when its
\* timer expired after the cancel.
C8Witness ==
    /\ cancelled /\ ~paused /\ pendingAtPause = {}
    /\ \E f \in added : RetryRefused(f)

C10StopAbortsAll ==
    [][((paused /\ paused') \/ cancelled) => uploadedSize' = uploadedSize]_vars


\* C11: after an attempt of a file has failed, getErrors holds an UploadError
\* of that file whose retryCount is the number of retries made for it so far.
C11ErrorPerFailedAttempt ==
    \A t \in TaskIds :
        tasks[t].phase = "delay" =>
            \E i \in 1..Len(getErrors(tasks[t].file)) :
                getErrors(tasks[t].file)[i].retryCount = tasks[t].attempt - 1

\* C19: at most options.batchSize storage uploads are in flight.
C19BoundedConcurrency ==
    Cardinality({t \in TaskIds : tasks[t].phase = "inflight"}) <= options.batchSize


\* ------------------------------------------------------------ middleware.ts
\* Strings are sequences of characters, so that the prefix match of the
\* regular expressions and split('/') are computed on the text of the path.
sLogin == <<"l", "o", "g", "i", "n">>
sRegister == <<"r", "e", "g", "i", "s", "t", "e", "r">>
sForgotPassword ==
    <<"f", "o", "r", "g", "o", "t", "-", "p", "a", "s", "s", "w", "o", "r", "d">>
sStudent == <<"s", "t", "u", "d", "e", "n", "t">>
sTeacher == <<"t", "e", "a", "c", "h", "e", "r">>
sParent == <<"p", "a", "r", "e", "n", "t">>
sAdmin == <<"a", "d", "m", "i", "n">>
sProjects == <<"p", "r", "o", "j", "e", "c", "t", "s">>
sApi == <<"a", "p", "i">>
sNextStatic == <<"_", "n", "e", "x", "t", "/", "s", "t", "a", "t", "i", "c">>
sNextImage == <<"_", "n", "e", "x", "t", "/", "i", "m", "a", "g", "e">>
sFavicon == <<"f", "a", "v", "i", "c", "o", "n", ".", "i", "c", "o">>
sX == <<"/", "x">>

\* '/' + w
Slash(w) == <<"/">> \o w

\* s.startsWith(pre)
StartsWith(s, pre) == Len(s) >= Len(pre) /\ SubSeq(s, 1, Len(pre)) = pre

\* index of the first '/' of s at or after position i, Len(s) + 1 if none
RECURSIVE IndexOfSlash(_, _)
IndexOfSlash(s, i) ==
    IF i > Len(s) THEN Len(s) + 1
    ELSE IF s[i] = "/" THEN i
    ELSE IndexOfSlash(s, i + 1)

\* currentPath.split('/')[1] of a path that holds a '/'
requestedRole(path) ==
    LET a == IndexOfSlash(path, 1)
        b == IndexOfSlash(path, a + 1)
    IN SubSeq(path, a + 1, b - 1)

\* the paths requested of the server
Paths ==
    {Slash(<<>>), Slash(sLogin), Slash(sRegister), Slash(sForgotPassword),
     Slash(sLogin) \o sX, Slash(sProjects), Slash(sProjects) \o sX,
     Slash(sStudent), Slash(sStudent) \o sX, Slash(sStudent) \o <<"s">>,
     Slash(sTeacher), Slash(sTeacher) \o sX, Slash(sParent),
     Slash(sParent) \o <<"s">> \o sX, Slash(sAdmin),
     Slash(sApi), Slash(sApi) \o sX, Slash(sNextStatic) \o sX,
     Slash(sNextImage) \o sX, Slash(sFavicon)}

\* the role column of a profiles row: a string or null
RoleValues ==
    {[isNull |-> TRUE, text |-> <<>>], [isNull |-> FALSE, text |-> <<>>]}
    \cup {[isNull |-> FALSE, text |-> w] : w \in {sStudent, sTeacher, sParent, sAdmin}}

\* the answer of from('profiles').select('role').single(): a row or null
Profiles ==
    {[found |-> FALSE, role |-> [isNull |-> TRUE, text |-> <<>>]]}
    \cup {[found |-> TRUE, role |-> r] : r \in RoleValues}

Requests ==
    [present : {TRUE}, path : Paths, user : BOOLEAN, profile : Profiles]

\* config.matcher: '/((?!_next/static|_next/image|favicon.ico|api/).*)'
Matcher(path) ==
    /\ StartsWith(path, <<"/">>)
    /\ \A w \in {sNextStatic, sNextImage, sFavicon, sApi \o <<"/">>} :
          ~StartsWith(path, Slash(w))

\* a variant of the public route test that accepts every path under a public route
IsPublicRouteByPrefix(path) ==
    \E w \in {sLogin, sRegister, sForgotPassword} : StartsWith(path, Slash(w))

\* ['/login', '/register', '/forgot-password'].includes(currentPath)
IsPublicRoute(path) ==
    path \in {Slash(sLogin), Slash(sRegister), Slash(sForgotPassword)}

\* a variant of the dashboard route test that leaves the parent dashboard out
IsDashboardRouteWithoutParent(path) ==
    \E w \in {sStudent, sTeacher} : StartsWith(path, Slash(w))

\* currentPath.match(/^\/(student|teacher|parent)/)
IsDashboardRoute(path) ==
    \E w \in {sStudent, sTeacher, sParent} : StartsWith(path, Slash(w))

\* profileData?.role is truthy
HasRole(profile) ==
    profile.found /\ ~profile.role.isNull /\ profile.role.text # <<>>

\* requestedRole === profileData?.role
RoleIs(profile, text) ==
    profile.found /\ ~profile.role.isNull /\ profile.role.text = text

PassThrough == [kind |-> "next", target |-> <<>>]
Redirect(path) == [kind |-> "redirect", target |-> path]

\* the response of middleware(req)
middleware(req) ==
    IF IsPublicRoute(req.path)
    THEN IF req.user /\ HasRole(req.profile)
         THEN Redirect(Slash(req.profile.role.text))
         ELSE PassThrough
    ELSE IF ~req.user
    THEN Redirect(Slash(sLogin))
    ELSE IF IsDashboardRoute(req.path) /\ ~RoleIs(req.profile, requestedRole(req.path))
    THEN Redirect(Slash(IF HasRole(req.profile) THEN req.profile.role.text ELSE sLogin))
    ELSE PassThrough

\* a request arrives at the server
RequestArrives(req) ==
    /\ mwRequest' = req
    /\ mwResponse' = [kind |-> "none"]
    /\ UNCHANGED <<uploaderVars, dbVars, call>>

\* Next.js runs the middleware on the request if the matcher accepts its path
MiddlewareRuns ==
    /\ mwRequest.present
    /\ mwResponse.kind = "none"
    /\ Matcher(mwRequest.path)
    /\ mwResponse' = middleware(mwRequest)
    /\ UNCHANGED <<mwRequest, uploaderVars, dbVars, call>>

MiddlewareInit == UploaderIdle /\ ServerIdle

MiddlewareNext ==
    \/ \E req \in Requests : RequestArrives(req)
    \/ MiddlewareRuns

MiddlewareSpec == MiddlewareInit /\ [][MiddlewareNext]_vars

\* the middleware has answered the request
Answered == mwRequest.present /\ mwResponse.kind # "none"

\* C16: a request without a session user for a matched path other than
\* /login, /register and /forgot-password is redirected to /login.
C16UnauthenticatedToLogin ==
    (/\ Answered
     /\ ~mwRequest.user
     /\ mwRequest.path \notin {Slash(sLogin), Slash(sRegister), Slash(sForgotPassword)})
        => mwResponse = Redirect(Slash(sLogin))

C16Witness ==
    /\ Answered
    /\ ~mwRequest.user
    /\ mwRequest.path = Slash(sLogin) \o sX
    /\ mwResponse = Redirect(Slash(sLogin))

\* C17: an authenticated request for a path that starts with /student,
\* /teacher or /parent passes only if the profile role equals the first path
\* segment; otherwise it is redirected to /<role>, or to /login without a role.
C17RoleOwnsDashboard ==
    (/\ Answered
     /\ mwRequest.user
     /\ \E w \in {sStudent, sTeacher, sParent} : StartsWith(mwRequest.path, Slash(w)))
        => LET role == mwRequest.profile.role
               known == mwRequest.profile.found /\ ~role.isNull
               first == SubSeq(mwRequest.path, 2,
                               IndexOfSlash(mwRequest.path, 2) - 1)
           IN IF known /\ role.text = first
              THEN mwResponse.kind = "next"
              ELSE IF known /\ role.text # <<>>
              THEN mwResponse = Redirect(Slash(role.text))
              ELSE mwResponse = Redirect(Slash(sLogin))

C17Witness ==
    /\ Answered
    /\ mwRequest.user
    /\ mwRequest.path = Slash(sParent) \o <<"s">> \o sX
    /\ RoleIs(mwRequest.profile, sParent)
    /\ mwResponse = Redirect(Slash(sParent))


\* ------------------------------------------- server actions: project status
NumUsers == 2        \* authenticated users
NumProjects == 1     \* rows of the table projects
MaxSteps == 2        \* project_steps rows of a project
MaxHistory == 1      \* project_status_history rows

MinSummaryLength == 50
MinObjectivesLength == 100

Users == 1..NumUsers
Callers == Users \cup {Null}              \* Null: auth.getUser() finds no user
Projects == 1..NumProjects
ProjectIds == Projects \cup {NumProjects + 1}   \* the last one names no row
Statuses == {"draft", "published", "archived"}

\* the length of a text column that is null
NullText == -1

\* what validateProjectForPublishing reads of a project: the required scalar
\* columns that are empty, the lengths of summary and learning_objectives,
\* the project_steps rows and the resource_type values of project_resources
\* (a step row breaks at most one of the rules on title, description, duration)
StepRows ==
    {s \in [title : BOOLEAN, description : BOOLEAN, estimated_duration : {0, 1},
            order_index : 0..(MaxSteps - 1)] :
        \/ s.title /\ s.description
        \/ s.title /\ s.estimated_duration > 0
        \/ s.description /\ s.estimated_duration > 0}

RECURSIVE SeqsUpTo(_, _)
SeqsUpTo(S, n) ==
    IF n = 0 THEN {<<>>}
    ELSE LET shorter == SeqsUpTo(S, n - 1)
         IN shorter \cup {Append(q, x) : q \in {r \in shorter : Len(r) = n - 1}, x \in S}

\* the steps carry their position as order_index, or all of them carry 0
StepLists ==
    {q \in SeqsUpTo(StepRows, MaxSteps) :
        \/ \A i \in 1..Len(q) : q[i].order_index = i - 1
        \/ \A i \in 1..Len(q) : q[i].order_index = 0}

Contents ==
    [empty : {{}, {"title"}, {"estimated_duration"}},
     summary : {NullText, MinSummaryLength - 1, MinSummaryLength},
     learning_objectives : {MinObjectivesLength - 1, MinObjectivesLength},
     steps : StepLists,
     resources : SUBSET {"material", "resource"}]

ValidationError(msg, step) == [msg |-> msg, step |-> step]

\* validateProjectForPublishing on a fetched project: threw is the TypeError
\* of .length on a null text, otherwise errors is validationErrors
validateProjectForPublishing(c) ==
    LET required ==
            {ValidationError(f \o " is required", 0) : f \in c.empty}
            \cup (IF c.summary <= 0
                  THEN {ValidationError("summary is required", 0)} ELSE {})
            \cup (IF c.learning_objectives <= 0
                  THEN {ValidationError("learning objectives is required", 0)} ELSE {})
        steps ==
            IF Len(c.steps) = 0
            THEN {ValidationError("At least one step is required", 0)}
            ELSE UNION {
                (IF ~c.steps[i].title
                 THEN {ValidationError("Title is required", i)} ELSE {})
                \cup (IF ~c.steps[i].description
                      THEN {ValidationError("Description is required", i)} ELSE {})
                \cup (IF c.steps[i].estimated_duration <= 0
                      THEN {ValidationError("Duration must be greater than 0", i)} ELSE {})
                : i \in 1..Len(c.steps)}
        resources ==
            IF "material" \in c.resources THEN {}
            ELSE {ValidationError("At least one project material is required", 0)}
        lengths ==
            (IF c.summary < MinSummaryLength
             THEN {ValidationError("Summary should be at least 50 characters", 0)} ELSE {})
            \cup (IF c.learning_objectives < MinObjectivesLength
                  THEN {ValidationError("Learning objectives should be at least 100 characters", 0)}
                  ELSE {})
        order ==
            IF Cardinality({c.steps[i].order_index : i \in 1..Len(c.steps)}) # Len(c.steps)
            THEN {ValidationError("Step order is invalid", 0)} ELSE {}
        validationErrors == required \cup steps \cup resources \cup lengths \cup order
    IN [threw |-> c.summary = NullText \/ c.learning_objectives = NullText,
        isValid |-> validationErrors = {},
        errors |-> validationErrors]


\* the backend call of a server action that answers with an error ("none": no one)
UpdateBackend ==
    {"none", "auth.getUser", "projects.select", "project_status_history.insert",
     "projects.update"}

PublishBackend == UpdateBackend \cup {"validation.select"}

Returned(op, caller, pid) ==
    [NoCall EXCEPT !.op = op, !.caller = caller, !.project = pid,
                   !.outcome = "returned", !.success = TRUE]

Threw(op, caller, pid, msg) ==
    [NoCall EXCEPT !.op = op, !.caller = caller, !.project = pid,
                   !.outcome = "threw", !.error = msg]

\* the call record of a read action, which also keeps the backend call that failed
Read(record, down) == [record EXCEPT !.down = down]

\* updateProjectStatus(projectId, status): what it throws, and the tables after it
updateProjectStatus(caller, pid, status, down) ==
    LET Fail(msg) ==
            [threw |-> TRUE, error |-> msg, projects |-> projects, history |-> history]
    IN  IF down = "auth.getUser" THEN Fail("backend error")
        ELSE IF caller = Null THEN Fail("Not authenticated")
        ELSE IF down = "projects.select" \/ pid \notin Projects THEN Fail("backend error")
        ELSE IF projects[pid].created_by # caller THEN Fail("Not authorized")
        ELSE IF down = "project_status_history.insert" THEN Fail("backend error")
        ELSE LET row == [project_id |-> pid, old_status |-> projects[pid].status,
                         new_status |-> status, changed_by |-> caller]
             IN IF down = "projects.update"
                THEN [Fail("backend error") EXCEPT !.history = Append(history, row)]
                ELSE [threw |-> FALSE, error |-> "",
                      projects |-> [projects EXCEPT ![pid].status = status],
                      history |-> Append(history, row)]

\* a variant of the test of publishProject that publishes whatever validation says
PublishAllowedAlways(v) == TRUE

\* the test of publishProject on the answer of validation: isValid
PublishAllowed(v) == v.isValid

UpdateProjectStatus(caller, pid, status, down) ==
    /\ LET r == updateProjectStatus(caller, pid, status, down)
       IN /\ Len(r.history) <= MaxHistory
          /\ projects' = r.projects
          /\ history' = r.history
          /\ call' = IF r.threw THEN Threw("updateProjectStatus", caller, pid, r.error)
                     ELSE Returned("updateProjectStatus", caller, pid)
    /\ UNCHANGED <<moderation, approvals, conflicts, newProject, scanResults,
                   mwRequest, mwResponse, uploaderVars>>

PublishProject(caller, pid, down) ==
    /\ IF down = "validation.select" \/ pid \notin Projects
       THEN /\ call' = Threw("publishProject", caller, pid, "backend error")
            /\ UNCHANGED <<projects, history>>
       ELSE LET v == validateProjectForPublishing(projects[pid].content)
                r == updateProjectStatus(caller, pid, "published", down)
            IN IF v.threw
               THEN /\ call' = Threw("publishProject", caller, pid, "TypeError")
                    /\ UNCHANGED <<projects, history>>
               ELSE IF ~PublishAllowed(v)
               THEN /\ call' = [Returned("publishProject", caller, pid)
                                   EXCEPT !.success = FALSE, !.errors = v.errors]
                    /\ UNCHANGED <<projects, history>>
               ELSE /\ Len(r.history) <= MaxHistory
                    /\ projects' = r.projects
                    /\ history' = r.history
                    /\ call' = IF r.threw
                               THEN Threw("publishProject", caller, pid, r.error)
                               ELSE Returned("publishProject", caller, pid)
    /\ UNCHANGED <<moderation, approvals, conflicts, newProject, scanResults,
                   mwRequest, mwResponse, uploaderVars>>

ArchiveProject(caller, pid, down) ==
    /\ LET r == updateProjectStatus(caller, pid, "archived", down)
       IN /\ Len(r.history) <= MaxHistory
          /\ projects' = r.projects
          /\ history' = r.history
          /\ call' = IF r.threw THEN Threw("archiveProject", caller, pid, r.error)
                     ELSE Returned("archiveProject", caller, pid)
    /\ UNCHANGED <<moderation, approvals, conflicts, newProject, scanResults,
                   mwRequest, mwResponse, uploaderVars>>

\* the tables after createProject has run for every project: status 'draft'
DraftProjects(owners, contents) ==
    /\ projects \in [Projects -> [created_by : owners, status : {"draft"}, content : contents]]
    /\ moderation = [p \in Projects |-> "none"]
    /\ history = <<>>
    /\ approvals = <<>>

\* PublishSpec: user 1 has created the projects, with any content
PublishInit ==
    /\ UploaderIdle
    /\ mwRequest = [present |-> FALSE]
    /\ mwResponse = [kind |-> "none"]
    /\ DraftProjects({1}, Contents)
    /\ conflicts = <<>>
    /\ call = NoCall
    /\ newProject = NoRows
    /\ scanResults = NoScanRow

PublishNext ==
    \E u \in Callers, p \in ProjectIds, d \in PublishBackend : PublishProject(u, p, d)

PublishSpec == PublishInit /\ [][PublishNext]_vars

\* what the claim lists: required fields present, at least one step, every
\* step with title, description and positive duration, at least one
\* 'material' resource, distinct step order indexes
Publishable(c) ==
    /\ c.empty = {} /\ c.summary > 0 /\ c.learning_objectives > 0
    /\ Len(c.steps) >= 1
    /\ \A i \in 1..Len(c.steps) :
          c.steps[i].title /\ c.steps[i].description /\ c.steps[i].estimated_duration > 0
    /\ "material" \in c.resources
    /\ \A i, j \in 1..Len(c.steps) : c.steps[i].order_index = c.steps[j].order_index => i = j

\* C15: publishProject sets the status to 'published' only for a project that
\* validation finds without errors; when validation reports errors it returns
\* {success: false, errors} and changes neither the status nor the history.
C15PublishRequiresValid ==
    [][call'.op = "publishProject" =>
        \A p \in Projects :
           /\ (projects'[p].status = "published" /\ projects[p].status # "published")
                 => Publishable(projects[p].content)
           /\ (call'.project = p /\ ~Publishable(projects[p].content))
                 => /\ projects' = projects /\ history' = history
                    /\ call'.outcome = "returned" => ~call'.success /\ call'.errors # {}
      ]_vars

C15Witness ==
    /\ call.op = "publishProject" /\ call.outcome = "returned" /\ call.success
    /\ call.project \in Projects
    /\ projects[call.project].status = "published"
    /\ Len(projects[call.project].content.steps) = MaxSteps


\* ------------------------------ server actions: approvals, conflicts, reads
MaxApprovals == 1    \* status_change_approvals rows
NumConflicts == 1    \* draft_conflicts rows

ModerationStatuses == {"pending", "approved", "rejected", "flagged"}

\* draft_data of a draft_conflicts row: the project columns of the draft, of
\* which the model keeps whether it holds a status, and which
DraftData ==
    {[hasStatus |-> FALSE, status |-> ""], [hasStatus |-> TRUE, status |-> "published"]}

\* the requiredStatus argument of checkProjectAccess: omitted, or a list
RequiredStatuses ==
    {[given |-> FALSE, statuses |-> {}]}
    \cup {[given |-> TRUE, statuses |-> S] : S \in SUBSET Statuses}

\* the server actions that read auth.getUser() without its error: an error
\* leaves user null
NoUser(caller, down) == down = "auth.getUser" \/ caller = Null

\* the state the middleware, the uploader, createProject and scanContent own
elsewhere == <<mwRequest, mwResponse, uploaderVars, newProject, scanResults>>

RequestStatusChange(caller, pid, requested, down) ==
    /\ IF NoUser(caller, down)
       THEN /\ call' = Threw("requestStatusChange", caller, pid, "Not authenticated")
            /\ UNCHANGED approvals
       ELSE IF down = "projects.select" \/ pid \notin Projects
       THEN /\ call' = Threw("requestStatusChange", caller, pid, "Project not found")
            /\ UNCHANGED approvals
       ELSE /\ approvals' =
                 IF down = "status_change_approvals.insert" THEN approvals
                 ELSE Append(approvals,
                             [project_id |-> pid, requested_by |-> caller,
                              requested_status |-> requested, status |-> "pending"])
            /\ Len(approvals') <= MaxApprovals
            /\ call' = Returned("requestStatusChange", caller, pid)
    /\ UNCHANGED <<projects, moderation, history, conflicts, elsewhere>>

HandleStatusChangeApproval(caller, aid, approved, down) ==
    /\ IF NoUser(caller, down)
       THEN /\ call' = Threw("handleStatusChangeApproval", caller, Null,
                             "Not authenticated")
            /\ UNCHANGED <<projects, approvals>>
       ELSE IF down = "status_change_approvals.select" \/ aid \notin DOMAIN approvals
       THEN /\ call' = Threw("handleStatusChangeApproval", caller, Null,
                             "Approval request not found")
            /\ UNCHANGED <<projects, approvals>>
       ELSE LET approval == approvals[aid]
                pid == approval.project_id
            IN /\ projects' =
                     IF approved /\ down # "projects.update"
                     THEN [projects EXCEPT ![pid].status = approval.requested_status]
                     ELSE projects
               /\ approvals' =
                     IF down = "status_change_approvals.update" THEN approvals
                     ELSE [approvals EXCEPT
                              ![aid].status = IF approved THEN "approved" ELSE "rejected"]
               /\ call' = Returned("handleStatusChangeApproval", caller, pid)
    /\ UNCHANGED <<moderation, history, conflicts, elsewhere>>

ResolveDraftConflict(caller, cid, resolution, down) ==
    /\ IF NoUser(caller, down)
       THEN /\ call' = Threw("resolveDraftConflict", caller, Null, "Not authenticated")
            /\ UNCHANGED <<projects, conflicts>>
       ELSE IF down = "draft_conflicts.select" \/ cid \notin DOMAIN conflicts
       THEN /\ call' = Threw("resolveDraftConflict", caller, Null, "Conflict not found")
            /\ UNCHANGED <<projects, conflicts>>
       ELSE LET conflict == conflicts[cid]
                pid == conflict.project_id
            IN /\ projects' =
                     IF /\ resolution = "keep"
                        /\ conflict.draft_data.hasStatus
                        /\ down # "projects.update"
                     THEN [projects EXCEPT ![pid].status = conflict.draft_data.status]
                     ELSE projects
               /\ conflicts' =
                     IF down = "draft_conflicts.update" THEN conflicts
                     ELSE [conflicts EXCEPT ![cid].resolved = TRUE]
               /\ call' = Returned("resolveDraftConflict", caller, pid)
    /\ UNCHANGED <<moderation, history, approvals, elsewhere>>

\* moderateContent(projectId, 'project', projectId, status)
ModerateContent(caller, pid, status, down) ==
    /\ IF NoUser(caller, down)
       THEN /\ call' = Threw("moderateContent", caller, pid, "Not authenticated")
            /\ UNCHANGED moderation
       ELSE IF down = "content_moderation.insert" \/ pid \notin Projects
       THEN /\ call' = Threw("moderateContent", caller, pid, "backend error")
            /\ UNCHANGED moderation
       ELSE /\ moderation' = [moderation EXCEPT ![pid] = status]
            /\ call' = Returned("moderateContent", caller, pid)
    /\ UNCHANGED <<projects, history, approvals, conflicts, elsewhere>>

\* a variant of the visibility rule that hides only drafts
VisibleUnlessDraft(isOwner, status) == isOwner \/ status # "draft"

\* the visibility rule of getVisibleContent: !(!isOwner && status !== 'published')
Visible(isOwner, status) == isOwner \/ status = "published"

GetVisibleContent(caller, pid, down) ==
    /\ call' =
          Read(IF NoUser(caller, down)
               THEN Threw("getVisibleContent", caller, pid, "Not authenticated")
               ELSE IF down = "projects.select" \/ pid \notin Projects
               THEN Threw("getVisibleContent", caller, pid, "Project not found")
               ELSE IF ~Visible(projects[pid].created_by = caller, projects[pid].status)
               THEN Threw("getVisibleContent", caller, pid, "Project not available")
               ELSE [Returned("getVisibleContent", caller, pid) EXCEPT !.content = pid],
               down)
    /\ UNCHANGED <<dbVars, mwRequest, mwResponse, uploaderVars>>

\* checkProjectAccess(projectId, requiredStatus): the boolean it returns
checkProjectAccess(caller, pid, required, down) ==
    IF down = "auth.getUser" THEN FALSE
    ELSE IF caller = Null THEN FALSE
    ELSE IF down = "projects.select" \/ pid \notin Projects THEN FALSE
    ELSE IF projects[pid].created_by = caller THEN TRUE
    ELSE IF required.given /\ projects[pid].status \notin required.statuses THEN FALSE
    ELSE TRUE

CheckProjectAccess(caller, pid, required, down) ==
    /\ call' = Read([Returned("checkProjectAccess", caller, pid) EXCEPT
                         !.required = required,
                         !.granted = checkProjectAccess(caller, pid, required, down)],
                    down)
    /\ UNCHANGED <<dbVars, mwRequest, mwResponse, uploaderVars>>


ReadBackend == {"none", "auth.getUser", "projects.select"}

\* a project that passes validation
SampleContent ==
    [empty |-> {}, summary |-> MinSummaryLength,
     learning_objectives |-> MinObjectivesLength,
     steps |-> <<[title |-> TRUE, description |-> TRUE, estimated_duration |-> 1,
                  order_index |-> 0]>>,
     resources |-> {"material"}]

\* VisibilitySpec: the owner changes the status, anyone moderates, anyone reads
VisibilityInit ==
    /\ UploaderIdle
    /\ mwRequest = [present |-> FALSE]
    /\ mwResponse = [kind |-> "none"]
    /\ DraftProjects(Users, {SampleContent})
    /\ conflicts = <<>>
    /\ call = NoCall
    /\ newProject = NoRows
    /\ scanResults = NoScanRow

VisibilityNext ==
    \/ \E u \in Callers, p \in ProjectIds, st \in Statuses, d \in UpdateBackend :
          UpdateProjectStatus(u, p, st, d)
    \/ \E u \in Callers, p \in ProjectIds, st \in ModerationStatuses,
          d \in {"none", "auth.getUser", "content_moderation.insert"} :
          ModerateContent(u, p, st, d)
    \/ \E u \in Callers, p \in ProjectIds, d \in ReadBackend : GetVisibleContent(u, p, d)
    \/ \E u \in Callers, p \in ProjectIds, r \in RequiredStatuses, d \in ReadBackend :
          CheckProjectAccess(u, p, r, d)

VisibilitySpec == VisibilityInit /\ [][VisibilityNext]_vars

\* StatusSpec: every server action that writes projects.status or prepares such a write
StatusInit ==
    /\ UploaderIdle
    /\ mwRequest = [present |-> FALSE]
    /\ mwResponse = [kind |-> "none"]
    /\ DraftProjects({1}, {SampleContent})
    /\ conflicts \in [1..NumConflicts ->
                        [project_id : Projects, draft_data : DraftData, resolved : {FALSE}]]
    /\ call = NoCall
    /\ newProject = NoRows
    /\ scanResults = NoScanRow

StatusNext ==
    \/ \E u \in Callers, p \in ProjectIds, d \in PublishBackend : PublishProject(u, p, d)
    \/ \E u \in Callers, p \in ProjectIds, d \in UpdateBackend : ArchiveProject(u, p, d)
    \/ \E u \in Callers, p \in ProjectIds, st \in Statuses,
          d \in {"none", "auth.getUser", "projects.select", "status_change_approvals.insert"} :
          RequestStatusChange(u, p, st, d)
    \/ \E u \in Callers, a \in 1..(MaxApprovals + 1), ok \in BOOLEAN,
          d \in {"none", "auth.getUser", "status_change_approvals.select",
                 "projects.update", "status_change_approvals.update"} :
          HandleStatusChangeApproval(u, a, ok, d)
    \/ \E u \in Callers, c \in 1..(NumConflicts + 1), res \in {"keep", "discard"},
          d \in {"none", "auth.getUser", "draft_conflicts.select", "projects.update",
                 "draft_conflicts.update"} :
          ResolveDraftConflict(u, c, res, d)

StatusSpec == StatusInit /\ [][StatusNext]_vars

\* the last server action was op, called by an authenticated user on a project that exists
Called(op) == call.op = op /\ call.caller \in Users /\ call.project \in Projects

\* C12: content whose latest content_moderation status is 'pending',
\* 'flagged' or 'rejected' is not returned to a user who is not the owner.
C12ModerationGatesVisibility ==
    (/\ Called("getVisibleContent")
     /\ call.outcome = "returned"
     /\ call.caller # projects[call.project].created_by)
        => moderation[call.project] \notin {"pending", "flagged", "rejected"}

\* C13: getVisibleContent returns a project to an authenticated user who is
\* not its creator only when its status is 'published' and throws 'Project
\* not available' for a draft or archived one; the creator reads it in every status.
C13StatusGatesVisibility ==
    Called("getVisibleContent") =>
        LET project == projects[call.project]
        IN IF call.caller = project.created_by
           THEN call.down = "none" => call.outcome = "returned" /\ call.content = call.project
           ELSE /\ call.outcome = "returned" => project.status = "published"
                /\ project.status \in {"draft", "archived"} =>
                      /\ call.outcome = "threw"
                      /\ call.down = "none" => call.error = "Project not available"

C13Witness ==
    /\ Called("getVisibleContent")
    /\ call.caller # projects[call.project].created_by
    /\ projects[call.project].status = "archived"
    /\ call.outcome = "threw" /\ call.error = "Project not available"

\* C14: the status of a project changes only in a server action whose caller is
\* the project's created_by (stated for the actions that work on rows the
\* application itself has written: the status actions and the approval workflow).
C14OnlyOwnerChangesStatus ==
    [][\A p \in Projects :
          (/\ projects'[p].status # projects[p].status
           /\ call'.op # "resolveDraftConflict")
              => call'.caller = projects[p].created_by
      ]_vars

\* C18: checkProjectAccess returns, and returns true exactly when the caller is
\* authenticated, the project exists, no backend call failed, and the caller
\* is the creator or requiredStatus is given and holds the project's status.
C18AccessNeedsOwnerOrStatus ==
    call.op = "checkProjectAccess" =>
        /\ call.outcome = "returned"
        /\ call.granted <=>
              /\ call.caller \in Users
              /\ call.project \in Projects
              /\ call.down = "none"
              /\ \/ projects[call.project].created_by = call.caller
                 \/ /\ call.required.given
                    /\ projects[call.project].status \in call.required.statuses


\* ------------------------------------------- server actions: createProject
MaxLessons == 2      \* projectData.lessons
MaxUploads == 3      \* files of projectData: materials, resources, lesson resources

\* createProject(projectData) with n lessons and k files; the project_steps
\* inserts of failedSteps and the project_resources inserts of failedFiles
\* answer with an error, and so does the backend call down
CreateProject(caller, n, k, down, failedSteps, failedFiles) ==
    /\ LET threw(msg) ==
              [Threw("createProject", caller, Null, msg) EXCEPT !.lessons = n, !.files = k]
           row == [NoRows EXCEPT !.project = TRUE, !.status = "draft"]
       IN IF down = "auth.getUser"
          THEN call' = threw("backend error") /\ newProject' = NoRows
          ELSE IF caller = Null
          THEN call' = threw("Not authenticated") /\ newProject' = NoRows
          ELSE IF down = "projects.insert"
          THEN call' = threw("backend error") /\ newProject' = NoRows
          ELSE IF failedSteps # {}
          THEN \* Promise.all rejects; the other step inserts have been sent
               /\ call' = threw("backend error")
               /\ newProject' = [row EXCEPT !.steps = {i - 1 : i \in (1..n) \ failedSteps}]
          ELSE \* the answers of the resource inserts are not looked at
               /\ call' = [Returned("createProject", caller, Null)
                              EXCEPT !.lessons = n, !.files = k]
               /\ newProject' = [row EXCEPT !.steps = {i - 1 : i \in 1..n},
                                            !.resources = (1..k) \ failedFiles]
    /\ UNCHANGED <<projects, moderation, history, approvals, conflicts, scanResults,
                   mwRequest, mwResponse, uploaderVars>>

CreateInit == UploaderIdle /\ ServerIdle

CreateNext ==
    \E u \in Callers, n \in 0..MaxLessons, k \in 0..MaxUploads,
       d \in {"none", "auth.getUser", "projects.insert"} :
        \E fs \in SUBSET (1..n), ff \in SUBSET (1..k) : CreateProject(u, n, k, d, fs, ff)

CreateSpec == CreateInit /\ [][CreateNext]_vars

\* C20: after createProject the database holds the complete project (the
\* draft row, a step per lesson with order_index 0..n-1, a resource row per
\* file) or, if it threw, no row of the project.
C20CreateAllOrNothing ==
    call.op = "createProject" =>
        IF call.outcome = "threw"
        THEN newProject = NoRows
        ELSE newProject = [project |-> TRUE, status |-> "draft",
                           steps |-> 0..(call.lessons - 1),
                           resources |-> 1..call.files]


\* --------------------------------------------- server actions: scanContent
\* Scores are the confidence scores of the moderation service in percent.
\* They are even, so that the mean of the two scans that can yield a score
\* (text and images; scanFiles and checkLinks return null) is a whole number.
Scores == {0, 20, 60, 100}

\* the ai_moderation_settings row of the content type, or none
ScanSettings ==
    {[found |-> FALSE, enabled |-> FALSE, confidence_threshold |-> 30,
      auto_reject_threshold |-> 90, auto_approve_threshold |-> 10],
     [found |-> TRUE, enabled |-> FALSE, confidence_threshold |-> 30,
      auto_reject_threshold |-> 90, auto_approve_threshold |-> 10]}
    \cup [found : {TRUE}, enabled : {TRUE}, confidence_threshold : {30, 70},
          auto_reject_threshold : {90}, auto_approve_threshold : {0, 10}]

\* the answer of the moderation service to one scan: an error, or a score
ServiceAnswers == {[ok |-> FALSE, score |-> 0]} \cup [ok : {TRUE}, score : Scores]

\* content.images: none, or images and the answer of the service for them
ImageInputs ==
    {[given |-> FALSE, ok |-> FALSE, score |-> 0], [given |-> TRUE, ok |-> FALSE, score |-> 0]}
    \cup [given : {TRUE}, ok : {TRUE}, score : Scores]

\* what a scan function returns: null, or an object with a confidence_score
NullResult == [isNull |-> TRUE, confidence_score |-> 0]
ScoreResult(x) == [isNull |-> FALSE, confidence_score |-> x]

\* scanText: null when the call of the service throws
scanText(answer) == IF answer.ok THEN ScoreResult(answer.score) ELSE NullResult

\* scanImages: null when a call of the service throws
scanImages(images) == IF images.ok THEN ScoreResult(images.score) ELSE NullResult

\* scanFiles and checkLinks
scanFiles == NullResult
checkLinks == NullResult

RECURSIVE SumScores(_)
SumScores(q) == IF q = <<>> THEN 0 ELSE Head(q).confidence_score + SumScores(Tail(q))

HasScore(r) == ~r.isNull

\* the aggregated results of scanContent for the settings and the four scan results
aggregatedResults(settings, results) ==
    LET validScores == SelectSeq(results, HasScore)
        score == IF Len(validScores) > 0
                 THEN SumScores(validScores) \div Len(validScores)
                 ELSE 0
    IN [status |-> IF score > settings.confidence_threshold THEN "flagged" ELSE "clean",
        confidence_score |-> score,
        scored |-> Len(validScores)]

\* the moderateContent call scanContent makes after the insert, if any
autoModerate(settings, score) ==
    IF score >= settings.auto_reject_threshold THEN "rejected"
    ELSE IF score <= settings.auto_approve_threshold THEN "approved"
    ELSE "none"

\* scanContent(contentType, contentId, content).  moderateContent is not
\* imported by content-scanning.ts, and its call passes the arguments in
\* another order than moderation.ts declares them: whether the call returns
\* or throws is left open (moderates).
ScanContent(settings, text, images, hasFiles, hasLinks, down, moderates) ==
    /\ LET scan == [NoCall EXCEPT !.op = "scanContent"]
           results == <<scanText(text),
                        IF images.given THEN scanImages(images) ELSE NullResult,
                        IF hasFiles THEN scanFiles ELSE NullResult,
                        IF hasLinks THEN checkLinks ELSE NullResult>>
           agg == aggregatedResults(settings, results)
           auto == autoModerate(settings, agg.confidence_score)
           row == [present |-> TRUE, status |-> agg.status,
                   confidence_score |-> agg.confidence_score,
                   scan_metadata |-> results]
           done == [scan EXCEPT !.enabled = TRUE, !.scored = agg.scored]
       IN IF down = "ai_moderation_settings.select" \/ ~settings.found \/ ~settings.enabled
          THEN /\ call' = [scan EXCEPT !.outcome = "returned", !.status = "clean"]
               /\ UNCHANGED scanResults
          ELSE IF down = "content_scan_results.insert"
          THEN /\ call' = [done EXCEPT !.outcome = "threw", !.error = "backend error"]
               /\ UNCHANGED scanResults
          ELSE /\ scanResults' = row
               /\ call' =
                    IF auto # "none" /\ ~moderates
                    THEN [done EXCEPT !.outcome = "threw", !.error = "moderateContent",
                                      !.stored = TRUE, !.autoModeration = auto]
                    ELSE [done EXCEPT !.outcome = "returned", !.stored = TRUE,
                                      !.status = agg.status,
                                      !.confidence_score = agg.confidence_score,
                                      !.autoModeration = auto]
    /\ UNCHANGED <<projects, moderation, history, approvals, conflicts, newProject,
                   mwRequest, mwResponse, uploaderVars>>

ScanInit == UploaderIdle /\ ServerIdle

ScanNext ==
    \E settings \in ScanSettings, text \in ServiceAnswers, images \in ImageInputs,
       hasFiles \in BOOLEAN, hasLinks \in BOOLEAN,
       down \in {"none", "ai_moderation_settings.select", "content_scan_results.insert"},
       moderates \in BOOLEAN :
        ScanContent(settings, text, images, hasFiles, hasLinks, down, moderates)

ScanSpec == ScanInit /\ [][ScanNext]_vars

\* C21: with AI moderation enabled, scanContent reports 'clean' (in what it
\* returns or in the content_scan_results row it stores) or calls for an
\* automatic approval only if at least one scan has yielded a score.
C21ScanFailsClosed ==
    (/\ call.op = "scanContent"
     /\ call.enabled
     /\ \/ call.outcome = "returned" /\ call.status = "clean"
        \/ call.stored /\ scanResults.status = "clean"
        \/ call.autoModeration = "approved")
        => call.scored >= 1

====
